---- MODULE Spec2Model ----
(***************************************************************************)
(* claude-code-proxy (src/main.go): an OpenAI-compatible chat-completions  *)
(* endpoint that forwards each request to the `claude` CLI.                *)
(*                                                                         *)
(* Go strings are modelled as sequences of one-character strings, so that  *)
(* strings.HasPrefix, TrimPrefix, TrimSpace, ToLower and concatenation are *)
(* computed and not assumed.  Fixed tags that the code only compares for   *)
(* equality (roles, event types, finish reasons) are TLA+ strings.         *)
(***************************************************************************)
EXTENDS Integers, Sequences, FiniteSets, TLC

VARIABLES
    envModel,      \* os.Getenv("CLAUDE_MODEL") as main read it (<<>>: unset)
    apiKey,        \* var apiKey (PROXY_API_KEY), set once by main
    defaultModel,  \* var defaultModel, set once by main
    pc,            \* where the handler of the request is
    req,           \* the inbound HTTP request, as handleChat received it
    systemPrompt,  \* systemPrompt.String() handed to the invoker
    userPrompt,    \* userPrompt.String() handed to the invoker
    model,         \* requestModel handed to the invoker
    status,        \* HTTP status line written (0: none yet)
    headers,       \* response headers, a set of <<name, value>>
    out,           \* the writes made to the response body, in order
    procs,         \* the subprocesses of the request: argv, stdin, started, waited,
                   \* exit status, captured standard error, blocked on a full pipe
    sentRole,      \* local sentRole of handleStreamingRequest
    chatID,        \* local chatID of handleStreamingRequest
    created,       \* local created of handleStreamingRequest
    lines,         \* the lines scanner.Scan() has delivered so far
    scanErr,       \* whether the scan ended on a scanner error (token too long)
    errlog,        \* what the invokers logged about a failure of the subprocess
    conn,          \* the client connection: "open" or "closed"
    writeErrs,     \* writes to the response that returned an error (all dropped)
    fn,            \* argument and results of a pure function under test
    handlers       \* the locals of each of several executions of handleChat

vars == <<envModel, apiKey, defaultModel, pc, req, systemPrompt, userPrompt, model,
          status, headers, out, procs, sentRole, chatID, created, lines, scanErr,
          errlog, conn, writeErrs, fn, handlers>>

handlerVars == <<envModel, apiKey, defaultModel, pc, req, systemPrompt, userPrompt,
                 model, status, headers, out, procs, sentRole, chatID, created,
                 lines, scanErr, errlog, conn, writeErrs, handlers>>

(***************************************************************************)
(* Bounds of the model.                                                    *)
(***************************************************************************)
\* pieces concatenated into a model name given to normalizeModel
MaxPieces == 3
\* messages in a request given to the prompt assembler
MaxMessages == 3
\* lines the subprocess writes before it closes its output
MaxLines == 3

(***************************************************************************)
(* strings: the Go standard library functions the code calls.              *)
(***************************************************************************)
Upper == <<"A","B","C","D","E","F","G","H","I","J","K","L","M",
           "N","O","P","Q","R","S","T","U","V","W","X","Y","Z">>
Lower == <<"a","b","c","d","e","f","g","h","i","j","k","l","m",
           "n","o","p","q","r","s","t","u","v","w","x","y","z">>

LowerChar(c) ==
    IF \E i \in 1..26 : Upper[i] = c
    THEN Lower[CHOOSE i \in 1..26 : Upper[i] = c]
    ELSE c

ToLower(s) == [i \in 1..Len(s) |-> LowerChar(s[i])]

IsSpace(c) == c \in {" ", "\t", "\n", "\r", "\f"}

RECURSIVE TrimLeft(_)
TrimLeft(s) ==
    IF s # <<>> /\ IsSpace(Head(s)) THEN TrimLeft(Tail(s)) ELSE s

RECURSIVE TrimRight(_)
TrimRight(s) ==
    IF s # <<>> /\ IsSpace(s[Len(s)])
    THEN TrimRight(SubSeq(s, 1, Len(s) - 1))
    ELSE s

TrimSpace(s) == TrimRight(TrimLeft(s))

HasPrefix(s, p) == Len(s) >= Len(p) /\ SubSeq(s, 1, Len(p)) = p

TrimPrefix(s, p) == IF HasPrefix(s, p) THEN SubSeq(s, Len(p) + 1, Len(s)) ELSE s

(***************************************************************************)
(* String literals of the program.                                         *)
(***************************************************************************)
ClaudeDash == <<"c","l","a","u","d","e","-">>
ClaudeUnderscore == <<"c","l","a","u","d","e","_">>
Haiku == <<"h","a","i","k","u">>
Sonnet == <<"s","o","n","n","e","t">>
Opus == <<"o","p","u","s">>
Bases == <<Haiku, Sonnet, Opus>>
BearerSp == <<"B","e","a","r","e","r"," ">>
PrevOpen == <<"[","P","r","e","v","i","o","u","s"," ",
              "r","e","s","p","o","n","s","e",":"," ">>
PrevClose == <<"]","\n">>
NL == <<"\n">>
NLNL == <<"\n","\n">>

(***************************************************************************)
(* normalizeModel (src/main.go 92-108).                                    *)
(***************************************************************************)
\* the loop over []string{"haiku", "sonnet", "opus"}: the first base that is a
\* prefix of m, from index i on; <<>> when none is
RECURSIVE FirstBase(_, _)
FirstBase(m, i) ==
    IF i > Len(Bases) THEN <<>>
    ELSE IF HasPrefix(m, Bases[i]) THEN Bases[i]
    ELSE FirstBase(m, i + 1)

\* a normalizer that forgets to lower-case its input
normalizeModel_NoLower(m) ==
    LET m1 == TrimSpace(m)
        m2 == TrimPrefix(m1, ClaudeDash)
        m3 == TrimPrefix(m2, ClaudeUnderscore)
        b  == FirstBase(m3, 1)
    IN  IF b # <<>> THEN b
        ELSE IF m3 = <<>> THEN Sonnet
        ELSE m3

normalizeModel(m) ==
    LET m1 == ToLower(TrimSpace(m))
        m2 == TrimPrefix(m1, ClaudeDash)
        m3 == TrimPrefix(m2, ClaudeUnderscore)
        b  == FirstBase(m3, 1)
    IN  IF b # <<>> THEN b
        ELSE IF m3 = <<>> THEN Sonnet
        ELSE m3

(***************************************************************************)
(* The prompt assembler: the loop of handleChat over req.Messages          *)
(* (src/main.go 175-194), with its two strings.Builder accumulators.       *)
(***************************************************************************)
AssembleStep(acc, msg) ==
    CASE msg.role = "system" ->
           [acc EXCEPT !.sys = (IF Len(@) > 0 THEN @ \o NLNL ELSE @) \o msg.content]
      [] msg.role = "user" ->
           [acc EXCEPT !.usr = @ \o msg.content \o NL]
      [] msg.role = "assistant" ->
           [acc EXCEPT !.usr = @ \o PrevOpen \o msg.content \o PrevClose]
      [] OTHER -> acc

RECURSIVE AssembleFrom(_, _)
AssembleFrom(acc, msgs) ==
    IF msgs = <<>> THEN acc
    ELSE AssembleFrom(AssembleStep(acc, Head(msgs)), Tail(msgs))

Assemble(msgs) == AssembleFrom([sys |-> <<>>, usr |-> <<>>], msgs)

(***************************************************************************)
(* JSON values as encoding/json decodes them into interface{}: a tag and,  *)
(* for strings, arrays and objects, the value.  An object is a function    *)
(* from its keys; a key it lacks reads as nil.                             *)
(***************************************************************************)
JNull == [j |-> "null"]
JStr(s) == [j |-> "string", v |-> s]
JArr(a) == [j |-> "array", v |-> a]
JObj(o) == [j |-> "object", v |-> o]
Get(o, k) == IF k \in DOMAIN o THEN o[k] ELSE JNull

(***************************************************************************)
(* The response structures (src/main.go 40-72) and their JSON encoding:    *)
(* json.Marshal leaves out a field tagged omitempty when it is the empty   *)
(* string or a nil pointer, and never leaves out a struct value.           *)
(***************************************************************************)
ZeroMessage == [role |-> "", content |-> <<>>]
ZeroUsage == [prompt_tokens |-> 0, completion_tokens |-> 0, total_tokens |-> 0]

\* Delta{Role, Content}, both omitempty
MarshalDelta(d) ==
    [k \in ((IF d.role # "" THEN {"role"} ELSE {}) \cup
            (IF d.content # <<>> THEN {"content"} ELSE {}))
       |-> IF k = "role" THEN d.role ELSE d.content]

\* Choice{Index, Message, Delta, FinishReason}; delta is <<>> for a nil pointer
MarshalChoice(c) ==
    [k \in ({"index", "message"} \cup
            (IF c.delta # <<>> THEN {"delta"} ELSE {}) \cup
            (IF c.finish_reason # "" THEN {"finish_reason"} ELSE {}))
       |-> CASE k = "index" -> c.index
             [] k = "message" -> c.message
             [] k = "delta" -> MarshalDelta(c.delta[1])
             [] OTHER -> c.finish_reason]

\* ChatResponse: no field is omitempty
MarshalResponse(r) ==
    [id |-> r.id, object |-> r.object, created |-> r.created, model |-> r.model,
     choices |-> [i \in 1..Len(r.choices) |-> MarshalChoice(r.choices[i])],
     usage |-> r.usage]

\* ErrorResponse (src/main.go 67-72), as sendError fills it
ErrorEnvelope(message) == [error |-> [message |-> message, type |-> "error"]]

\* a chunk that echoes a model other than the one the subprocess was given
Chunk_OtherModel(ctx, delta, finish) ==
    [id |-> ctx.id, object |-> "chat.completion.chunk", created |-> ctx.created,
     model |-> Sonnet \o ctx.model,
     choices |-> <<[index |-> 0, message |-> ZeroMessage, delta |-> <<delta>>,
                    finish_reason |-> finish]>>,
     usage |-> ZeroUsage]

\* a terminal chunk that takes a new id and a new timestamp
Chunk_FreshID(ctx, delta, finish) ==
    [id |-> IF finish = "stop" THEN <<"chatcmpl-", 0>> ELSE ctx.id,
     object |-> "chat.completion.chunk",
     created |-> IF finish = "stop" THEN ctx.created + 1 ELSE ctx.created,
     model |-> ctx.model,
     choices |-> <<[index |-> 0, message |-> ZeroMessage, delta |-> <<delta>>,
                    finish_reason |-> finish]>>,
     usage |-> ZeroUsage]

\* a chunk built by the ChatResponse{...} literals of handleStreamingRequest
\* (src/main.go 335-344, 350-359, 372-381, 389-399) with the given delta and
\* finish reason
Chunk(ctx, delta, finish) ==
    [id |-> ctx.id, object |-> "chat.completion.chunk", created |-> ctx.created,
     model |-> ctx.model,
     choices |-> <<[index |-> 0, message |-> ZeroMessage, delta |-> <<delta>>,
                    finish_reason |-> finish]>>,
     usage |-> ZeroUsage]

(***************************************************************************)
(* The frames written to the response body.                                *)
(***************************************************************************)
\* sendSSEChunk (src/main.go 410-414): "data: <json>\n\n"
SSEChunk(chunk) == [frame |-> "data", obj |-> MarshalResponse(chunk)]
\* "data: [DONE]\n\n"
SSEDone == [frame |-> "done"]

\* an error event that is not followed by the terminator
SSEError_NoDone(message) == <<[frame |-> "error", obj |-> ErrorEnvelope(message)]>>

\* sendSSEError (src/main.go 416-427)
SSEError(message) ==
    <<[frame |-> "error", obj |-> ErrorEnvelope(message)], SSEDone>>
\* json.NewEncoder(w).Encode(v)
JSONBody(v) == [frame |-> "json", obj |-> v]
\* http.Error writes the text and a newline
TextBody(t) == [frame |-> "text", text |-> t]

(***************************************************************************)
(* One iteration of the scan loop of handleStreamingRequest                *)
(* (src/main.go 313-386) on one line: the chunks it sends and the value of *)
(* sentRole after it.                                                      *)
(***************************************************************************)
\* text, ok := contentMap["text"].(string); ok && text != ""
HasText(c) ==
    /\ c.j = "object"
    /\ Get(c.v, "text").j = "string"
    /\ Get(c.v, "text").v # <<>>

\* the chunks for one fragment, sending no role chunk first
FragmentChunks_NoRole(c, sr, ctx) ==
    <<Chunk(ctx, [role |-> "", content |-> Get(c.v, "text").v], "")>>

\* the chunks for one fragment, sending a role chunk before each of them
FragmentChunks_AlwaysRole(c, sr, ctx) ==
    <<Chunk(ctx, [role |-> "assistant", content |-> <<>>], ""),
      Chunk(ctx, [role |-> "", content |-> Get(c.v, "text").v], "")>>

\* the chunks for one fragment with text (src/main.go 333-360)
FragmentChunks(c, sr, ctx) ==
    (IF ~sr THEN <<Chunk(ctx, [role |-> "assistant", content |-> <<>>], "")>>
     ELSE <<>>)
    \o <<Chunk(ctx, [role |-> "", content |-> Get(c.v, "text").v], "")>>

\* a loop that sends only the first fragment of an event
ContentLoop_FirstOnly(items, sr, ctx) ==
    LET withText == {i \in 1..Len(items) : HasText(items[i])}
    IN  IF withText = {} THEN [sentRole |-> sr, chunks |-> <<>>]
        ELSE LET first == CHOOSE i \in withText : \A j \in withText : i <= j
             IN  [sentRole |-> TRUE, chunks |-> FragmentChunks(items[first], sr, ctx)]

\* for _, c := range content (src/main.go 330-363)
RECURSIVE ContentLoop(_, _, _)
ContentLoop(items, sr, ctx) ==
    IF items = <<>> THEN [sentRole |-> sr, chunks |-> <<>>]
    ELSE LET c == Head(items)
             emit == HasText(c)
             rest == ContentLoop(Tail(items), sr \/ emit, ctx)
         IN  [sentRole |-> rest.sentRole,
              chunks |-> (IF emit THEN FragmentChunks(c, sr, ctx) ELSE <<>>)
                         \o rest.chunks]

\* if msgType == "assistant" { ... } (src/main.go 327-366)
OnAssistant(o, sr, ctx) ==
    LET message == Get(o, "message")
        content == IF message.j = "object" THEN Get(message.v, "content") ELSE JNull
    IN  IF content.j = "array" THEN ContentLoop(content.v, sr, ctx)
        ELSE [sentRole |-> sr, chunks |-> <<>>]

\* a result branch that never sends the fallback chunk
OnResult_NoFallback(o, sr, ctx) == [sentRole |-> sr, chunks |-> <<>>]

\* a result branch that sends the full result whether or not a role was sent
OnResult_IgnoresRole(o, sr, ctx) ==
    LET result == Get(o, "result")
    IN  IF result.j = "string" /\ result.v # <<>>
        THEN [sentRole |-> TRUE,
              chunks |-> <<Chunk(ctx, [role |-> "assistant", content |-> result.v], "")>>]
        ELSE [sentRole |-> sr, chunks |-> <<>>]

\* if msgType == "result" { ... } (src/main.go 369-385)
OnResult(o, sr, ctx) ==
    LET result == Get(o, "result")
    IN  IF result.j = "string" /\ result.v # <<>> /\ ~sr
        THEN [sentRole |-> TRUE,
              chunks |-> <<Chunk(ctx, [role |-> "assistant", content |-> result.v], "")>>]
        ELSE [sentRole |-> sr, chunks |-> <<>>]

\* msgType, _ := msg["type"].(string)
MsgType(o) == IF Get(o, "type").j = "string" THEN Get(o, "type").v ELSE ""

\* the body of the loop for a line that was decoded to the object o
\* (src/main.go 324-385)
ProcessObject(o, sr, ctx) ==
    LET a == IF MsgType(o) = "assistant" THEN OnAssistant(o, sr, ctx)
             ELSE [sentRole |-> sr, chunks |-> <<>>]
        r == IF MsgType(o) = "result" THEN OnResult(o, a.sentRole, ctx)
             ELSE [sentRole |-> a.sentRole, chunks |-> <<>>]
    IN  [sentRole |-> r.sentRole, chunks |-> a.chunks \o r.chunks]

\* a loop in which a line that cannot be decoded makes the stream forget that
\* the role was sent
ProcessLine_BadLineResets(ln, sr, ctx) ==
    IF ln.k # "object" THEN [sentRole |-> FALSE, chunks |-> <<>>]
    ELSE ProcessObject(ln.o, sr, ctx)

\* the body of the loop for one line: an empty line and a line that is not a
\* JSON object are skipped (src/main.go 314-322)
ProcessLine(ln, sr, ctx) ==
    IF ln.k # "object" THEN [sentRole |-> sr, chunks |-> <<>>]
    ELSE ProcessObject(ln.o, sr, ctx)

\* a final chunk that carries no finish reason
FinalChunk_NoStop(ctx) == Chunk(ctx, [role |-> "", content |-> <<>>], "")

\* the final chunk (src/main.go 389-399)
FinalChunk(ctx) == Chunk(ctx, [role |-> "", content |-> <<>>], "stop")

(***************************************************************************)
(* The environment of the handler: configuration, requests, the clock and  *)
(* what the subprocess does.                                               *)
(***************************************************************************)
Secret == <<"k","e","y">>
ApiKeys == {Secret}

\* values of CLAUDE_MODEL; <<>> is the unset variable
EnvModels == {<<>>, <<"C","l","a","u","d","e","-","O","p","u","s">>}

\* main (src/main.go 116-120)
MainDefaultModel(env) == normalizeModel(IF env = <<>> THEN Sonnet ELSE env)

\* values of the Authorization header; <<>> is the missing header
Auths ==
    {<<>>,
     BearerSp \o Secret,
     BearerSp \o <<"b","a","d">>,
     BearerSp \o Secret \o <<"x">>,
     BearerSp \o <<"k","e">>,
     BearerSp,
     Secret,
     <<"b","e","a","r","e","r"," ">> \o Secret,
     <<"B","e","a","r","e","r">> \o Secret,
     BearerSp \o <<" ">> \o Secret}

Methods == {"POST", "GET"}

ReqModels == {<<>>, <<"C","l","a","u","d","e","-","H","a","i","k","u","-","4">>}

ReqMessages ==
    {<<[role |-> "user", content |-> <<"U">>]>>,
     <<[role |-> "system", content |-> <<"S">>],
       [role |-> "user", content |-> <<"U">>]>>}

\* the zero ChatRequest, left by a body that was not decoded
ZeroChat == [model |-> <<>>, messages |-> <<>>, stream |-> FALSE]

Requests ==
    {[auth |-> a, method |-> m, readOK |-> rd, jsonOK |-> js, chat |-> c] :
        a \in Auths, m \in Methods, rd \in BOOLEAN, js \in BOOLEAN,
        c \in [model : ReqModels, messages : ReqMessages, stream : BOOLEAN]
              \cup {ZeroChat}}

\* a request as the handler can see it: a body that could not be read is not
\* decoded, and a body that was not decoded leaves the zero ChatRequest (which
\* is also what the body {} decodes to)
ValidRequest(r) ==
    /\ (~r.readOK => ~r.jsonOK)
    /\ (~r.jsonOK => r.chat = ZeroChat)

NoRequest == [auth |-> <<>>, method |-> "", readOK |-> FALSE, jsonOK |-> FALSE,
              chat |-> ZeroChat]

\* time.Now(): readings of the clock in nanoseconds since the epoch; the two
\* readings an invoker takes for the id and for created are successive
NanosPerSecond == 1000000000
Times == {1, NanosPerSecond}
UnixNano(t) == t
Unix(t) == t \div NanosPerSecond

\* fmt.Sprintf("chatcmpl-%d", time.Now().UnixNano())
NewChatID(t) == <<"chatcmpl-", UnixNano(t)>>

\* what `claude --print` writes to its standard output
Outputs == {<<>>, <<"h","i","\n">>, <<" ","l","o","n","g","e","r"," ","\n">>}

\* how cmd.Output() ends: the process could not be launched, exited non-zero,
\* or exited zero with its output
\* (exit is the exit status, NoExit when there is none; stderr is what the
\* process wrote to its standard error, which cmd.Output() captures)
NoExit == -1
CliResults ==
    {[started |-> FALSE, ok |-> FALSE, exit |-> NoExit, stdout |-> <<>>, stderr |-> "",
      err |-> "exec: \"claude\": executable file not found in $PATH"],
     [started |-> TRUE, ok |-> FALSE, exit |-> 1, stdout |-> <<>>,
      stderr |-> "Error: not logged in", err |-> "exit status 1"]}
    \cup {[started |-> TRUE, ok |-> TRUE, exit |-> 0, stdout |-> o, stderr |-> "",
            err |-> ""] : o \in Outputs}

\* the exit status a started subprocess of the streaming path can end with
ExitCodes == {0, 1}

\* the lines of the subprocess as the loop sees them: empty, not a JSON
\* object, or an object
EmptyLine == [k |-> "empty"]
BadLine == [k |-> "invalid"]
ObjLine(o) == [k |-> "object", o |-> o]

Item(t) == JObj([type |-> JStr("text"), text |-> JStr(t)])
AssistantLine(content) ==
    ObjLine([type |-> JStr("assistant"), message |-> JObj([content |-> content])])

ResultLine(r) == ObjLine([type |-> JStr("result"), result |-> r])

Lines ==
    {EmptyLine,
     BadLine,
     \* an object without a string "type", though it has the other fields
     ObjLine([message |-> JObj([content |-> JArr(<<Item(<<"a">>)>>)]),
              result |-> JStr(<<"r">>)]),
     \* assistant events without a content array
     ObjLine([type |-> JStr("assistant"), message |-> JStr(<<"m">>)]),
     AssistantLine(JNull),
     \* assistant events whose content has no text to send
     AssistantLine(JArr(<<JStr(<<"x">>), JObj([type |-> JStr("tool_use")]),
                          Item(<<>>)>>)),
     \* assistant events with one and with two fragments
     AssistantLine(JArr(<<Item(<<"a">>)>>)),
     AssistantLine(JArr(<<Item(<<>>), Item(<<"b">>), Item(<<"c">>)>>)),
     \* result events
     ResultLine(JNull),
     ResultLine(JStr(<<>>)),
     ResultLine(JStr(<<"r">>))}

(***************************************************************************)
(* The response writer.                                                    *)
(***************************************************************************)
\* w.Header().Set(k, v)
SetHeader(h, k, v) == {p \in h : p[1] # k} \cup {<<k, v>>}
\* w.WriteHeader(code): the first status written stands
WriteHeader(st, code) == IF st = 0 THEN code ELSE st
\* a write to the body sends status 200 when none was written
Written(st) == WriteHeader(st, 200)

(***************************************************************************)
(* handleChat (src/main.go 136-209), up to the call of an invoker.         *)
(***************************************************************************)
\* a check that accepts any header that begins with "Bearer "
AuthOK_PrefixOnly(auth, key) == HasPrefix(auth, BearerSp)

\* the check of the Authorization header (src/main.go 138-139)
AuthOK(auth, key) == HasPrefix(auth, BearerSp) /\ TrimPrefix(auth, BearerSp) = key

\* a check that lets every method through
MethodAllowed_Any(method) == TRUE

\* the check of the method (src/main.go 145)
MethodAllowed(method) == method = "POST"

\* requestModel (src/main.go 199-202)
RequestModel(m, dflt) ==
    LET requestModel == normalizeModel(m)
    IN  IF requestModel = <<>> THEN dflt ELSE requestModel

\* the Content-Type header and sendError (src/main.go 429-435)
Reject(code, message) ==
    /\ headers' = SetHeader(headers, "Content-Type", "application/json")
    /\ status' = WriteHeader(status, code)
    /\ out' = Append(out, JSONBody(ErrorEnvelope(message)))
    /\ pc' = "done"
    /\ UNCHANGED <<systemPrompt, userPrompt, model>>

HandleChat(r) ==
    /\ pc = "idle"
    /\ req' = r
    /\ IF ~AuthOK(r.auth, apiKey) THEN Reject(401, <<"Invalid API key">>)
       ELSE IF ~MethodAllowed(r.method) THEN Reject(405, <<"Method not allowed">>)
       ELSE IF ~r.readOK THEN Reject(400, <<"Failed to read request">>)
       ELSE IF ~r.jsonOK THEN Reject(400, <<"Invalid JSON">>)
       ELSE LET p == Assemble(r.chat.messages)
            IN  /\ systemPrompt' = p.sys
                /\ userPrompt' = p.usr
                /\ model' = RequestModel(r.chat.model, defaultModel)
                /\ pc' = IF r.chat.stream THEN "stream" ELSE "nonstream"
                /\ UNCHANGED <<status, headers, out>>
    /\ UNCHANGED <<envModel, conn, apiKey, defaultModel, procs, sentRole, chatID,
                   created, lines, scanErr, errlog, writeErrs, fn,
                   handlers>>

(***************************************************************************)
(* handleNonStreamingRequest (src/main.go 211-264).                        *)
(***************************************************************************)
\* args (src/main.go 215-218)
NonStreamingArgs(m, sys) ==
    <<<<"--print">>, <<"--model", m>>>>
    \o (IF sys # <<>> THEN <<<<"--system-prompt", sys>>>> ELSE <<>>)

\* resp (src/main.go 240-261)
CompletionResponse(t1, t2, m, sys, usr, response) ==
    LET totalPrompt == Len(sys) + Len(usr)
    IN  [id |-> NewChatID(t1), object |-> "chat.completion", created |-> Unix(t2),
         model |-> m,
         choices |-> <<[index |-> 0,
                        message |-> [role |-> "assistant", content |-> response],
                        delta |-> <<>>, finish_reason |-> "stop"]>>,
         usage |-> [prompt_tokens |-> totalPrompt \div 4,
                    completion_tokens |-> Len(response) \div 4,
                    total_tokens |-> (totalPrompt + Len(response)) \div 4]]

\* an error message that carries the standard error of the subprocess
CliFailureMessage_WithStderr(res) == <<"Claude CLI failed: ", res.stderr>>

\* "Claude CLI failed: "+err.Error() (src/main.go 232)
CliFailureMessage(res) == <<"Claude CLI failed: ", res.err>>

\* a line of the log: the text before the value, and the value
LogLine(what, text) == [what |-> what, text |-> text]

\* what is logged when cmd.Output() fails (src/main.go 228-231): the error,
\* and the captured standard error when the error is an *exec.ExitError
CliFailureLog(res) ==
    <<LogLine("Claude CLI error: ", res.err)>>
    \o (IF res.started THEN <<LogLine("Stderr: ", res.stderr)>> ELSE <<>>)

\* cmd.Output() is cmd.Start() and, when that succeeded, cmd.Wait()
NonStreaming(res, t1, t2) ==
    /\ pc = "nonstream"
    /\ headers' = SetHeader(headers, "Content-Type", "application/json")
    /\ procs' = Append(procs, [args |-> NonStreamingArgs(model, systemPrompt),
                               stdin |-> userPrompt,
                               started |-> res.started,
                               waited |-> res.started,
                               exit |-> res.exit,
                               stderr |-> res.stderr,
                               blocked |-> FALSE])
    /\ IF ~res.ok
       THEN /\ errlog' = errlog \o CliFailureLog(res)
            /\ status' = WriteHeader(status, 500)
            /\ out' = Append(out, JSONBody(ErrorEnvelope(CliFailureMessage(res))))
       ELSE /\ errlog' = errlog
            /\ status' = Written(status)
            /\ out' = Append(out, JSONBody(MarshalResponse(
                        CompletionResponse(t1, t2, model, systemPrompt, userPrompt,
                                           TrimSpace(res.stdout)))))
    /\ pc' = "done"
    /\ UNCHANGED <<envModel, conn, apiKey, defaultModel, req, systemPrompt,
                   userPrompt, model, sentRole, chatID, created, lines, scanErr,
                   writeErrs, fn,
                   handlers>>

(***************************************************************************)
(* handleStreamingRequest (src/main.go 266-408).                           *)
(***************************************************************************)
\* args (src/main.go 280-283)
StreamingArgs(m, sys) ==
    <<<<"--print">>, <<"--model", m>>, <<"--output-format", "stream-json">>,
      <<"--verbose">>>>
    \o (IF sys # <<>> THEN <<<<"--system-prompt", sys>>>> ELSE <<>>)

\* the SSE headers (src/main.go 268-271)
SSEHeaders(h) ==
    SetHeader(SetHeader(SetHeader(SetHeader(h,
        "Content-Type", "text/event-stream"),
        "Cache-Control", "no-cache"),
        "Connection", "keep-alive"),
        "Access-Control-Allow-Origin", "*")

\* what the chunks of the stream are built from
Ctx == [id |-> chatID, created |-> created, model |-> model]

\* what is logged when cmd.StdoutPipe() (src/main.go 290) or cmd.Start()
\* (src/main.go 299) fails
StartFailureLog(pipeOK) ==
    IF ~pipeOK THEN LogLine("Failed to create stdout pipe: ", "pipe error")
    ELSE LogLine("Failed to start Claude CLI: ", "start error")

\* the writes of frames to the response: fmt.Fprintf and flusher.Flush()
\* (src/main.go 403-404, 412-413), whose errors the code does not look at;
\* on a closed connection each write fails and nothing reaches the client
Send(frames) ==
    IF conn = "open"
    THEN /\ out' = out \o frames
         /\ status' = IF frames # <<>> THEN Written(status) ELSE status
         /\ writeErrs' = writeErrs
    ELSE /\ out' = out
         /\ status' = status
         /\ writeErrs' = writeErrs + Len(frames)

\* from the headers to the first scanner.Scan() (src/main.go 267-311):
\* flusherOK, pipeOK and startOK say whether the writer is an http.Flusher,
\* whether cmd.StdoutPipe() and whether cmd.Start() succeeded
StreamStart(flusherOK, pipeOK, startOK, t1, t2) ==
    /\ pc = "stream"
    /\ IF ~flusherOK
       THEN /\ headers' = SetHeader(SetHeader(SSEHeaders(headers),
                              "Content-Type", "text/plain; charset=utf-8"),
                              "X-Content-Type-Options", "nosniff")
            /\ status' = WriteHeader(status, 500)
            /\ out' = Append(out, TextBody("Streaming not supported"))
            /\ pc' = "done"
            /\ UNCHANGED <<procs, chatID, created, errlog>>
       ELSE IF ~pipeOK \/ ~startOK
       THEN /\ headers' = SSEHeaders(headers)
            /\ errlog' = Append(errlog, StartFailureLog(pipeOK))
            /\ status' = Written(status)
            /\ out' = out \o SSEError(<<"Failed to start Claude CLI">>)
            /\ pc' = "done"
            /\ UNCHANGED <<procs, chatID, created>>
       ELSE /\ headers' = SSEHeaders(headers)
            /\ procs' = Append(procs, [args |-> StreamingArgs(model, systemPrompt),
                                       stdin |-> userPrompt,
                                       started |-> TRUE,
                                       waited |-> FALSE,
                                       exit |-> NoExit,
                                       stderr |-> "",
                                       blocked |-> FALSE])
            /\ chatID' = NewChatID(t1)
            /\ created' = Unix(t2)
            /\ pc' = "scan"
            /\ UNCHANGED <<status, out, errlog>>
    /\ sentRole' = FALSE
    /\ UNCHANGED <<envModel, conn, apiKey, defaultModel, req, systemPrompt,
                   userPrompt, model, lines, scanErr, writeErrs, fn,
                   handlers>>

\* scanner.Scan() delivers the line ln, and the body of the loop runs on it
ScanLine(ln) ==
    /\ pc = "scan"
    /\ Len(lines) < MaxLines
    /\ lines' = Append(lines, ln)
    /\ LET r == ProcessLine(ln, sentRole, Ctx)
       IN  /\ sentRole' = r.sentRole
           /\ Send([i \in 1..Len(r.chunks) |-> SSEChunk(r.chunks[i])])
    /\ UNCHANGED <<envModel, conn, apiKey, defaultModel, pc, req, systemPrompt,
                   userPrompt, model, headers, procs, chatID, created, scanErr,
                   errlog, fn,
                   handlers>>

\* scanner.Scan() returns false, at the end of the output or (tooLong) on a
\* line longer than the buffer of 1024*1024 bytes; the final chunk and
\* [DONE] are sent (src/main.go 388-404).  After a line that was too long
\* nobody reads the pipe any more while its read end stays open: pipeFull
\* tells whether what the subprocess still has to write exceeds the capacity
\* of the pipe, in which case its write blocks and it does not exit.
ScanEnd(tooLong, pipeFull) ==
    /\ pc = "scan"
    /\ pipeFull => tooLong
    /\ scanErr' = tooLong
    /\ procs' = [procs EXCEPT ![Len(procs)].blocked = pipeFull]
    /\ Send(<<SSEChunk(FinalChunk(Ctx)), SSEDone>>)
    /\ pc' = "wait"
    /\ UNCHANGED <<envModel, conn, apiKey, defaultModel, req, systemPrompt,
                   userPrompt, model, headers, sentRole, chatID, created,
                   lines, errlog, fn,
                   handlers>>

\* a handler that returns without waiting for the subprocess
CmdWait_NoWait ==
    /\ pc = "wait"
    /\ pc' = "done"
    /\ UNCHANGED <<envModel, conn, apiKey, defaultModel, req, systemPrompt,
                   userPrompt, model, status, headers, out, procs, sentRole,
                   chatID, created, lines, scanErr, errlog, writeErrs, fn,
                   handlers>>

\* a handler that reports a non-zero exit status as an SSE error event
CmdWait_ReportsExit ==
    /\ pc = "wait"
    /\ ~procs[Len(procs)].blocked
    /\ \E code \in ExitCodes :
          /\ procs' = [procs EXCEPT ![Len(procs)].waited = TRUE,
                                    ![Len(procs)].exit = code]
          /\ out' = IF code = 0 THEN out
                    ELSE out \o SSEError(<<"Claude CLI failed">>)
    /\ pc' = "done"
    /\ UNCHANGED <<envModel, conn, apiKey, defaultModel, req, systemPrompt,
                   userPrompt, model, status, headers, sentRole, chatID, created,
                   lines, scanErr, errlog, writeErrs, fn,
                   handlers>>

\* cmd.Wait() returns with the exit status of the subprocess (src/main.go
\* 406), which takes the subprocess to exit: Wait closes the read end of the
\* pipe only after it has seen the exit.  The error it returns is dropped.
CmdWait ==
    /\ pc = "wait"
    /\ ~procs[Len(procs)].blocked
    /\ \E code \in ExitCodes :
          procs' = [procs EXCEPT ![Len(procs)].waited = TRUE,
                                 ![Len(procs)].exit = code]
    /\ pc' = "done"
    /\ UNCHANGED <<envModel, conn, apiKey, defaultModel, req, systemPrompt,
                   userPrompt, model, status, headers, out, sentRole, chatID,
                   created, lines, scanErr, errlog, writeErrs, fn,
                   handlers>>

\* the client closes the connection while the stream is being written
ClientDisconnect ==
    /\ pc = "scan"
    /\ conn = "open"
    /\ conn' = "closed"
    /\ UNCHANGED <<envModel, apiKey, defaultModel, pc, req, systemPrompt,
                   userPrompt, model, status, headers, out, procs, sentRole,
                   chatID, created, lines, scanErr, errlog, writeErrs, fn,
                   handlers>>

(***************************************************************************)
(* The handling of one request.                                            *)
(***************************************************************************)
NoFn == [phase |-> "none"]
\* no execution of handleChat is modelled through `handlers`
NoHandlers == <<>>

Init ==
    /\ envModel \in EnvModels
    /\ apiKey \in ApiKeys
    /\ defaultModel = MainDefaultModel(envModel)
    /\ pc = "idle"
    /\ req = NoRequest
    /\ systemPrompt = <<>>
    /\ userPrompt = <<>>
    /\ model = <<>>
    /\ status = 0
    /\ headers = {}
    /\ out = <<>>
    /\ procs = <<>>
    /\ sentRole = FALSE
    /\ chatID = <<>>
    /\ created = 0
    /\ lines = <<>>
    /\ scanErr = FALSE
    /\ errlog = <<>>
    /\ conn = "open"
    /\ writeErrs = 0
    /\ fn = NoFn
    /\ handlers = NoHandlers

Receive == pc = "idle" /\ \E r \in Requests : ValidRequest(r) /\ HandleChat(r)
RunNonStreaming ==
    pc = "nonstream" /\ \E res \in CliResults, t1 \in Times, t2 \in Times :
        t1 < t2 /\ NonStreaming(res, t1, t2)
StartStream ==
    pc = "stream" /\ \E flusherOK \in BOOLEAN, pipeOK \in BOOLEAN, startOK \in BOOLEAN,
       t1 \in Times, t2 \in Times :
        t1 < t2 /\ StreamStart(flusherOK, pipeOK, startOK, t1, t2)
ReadLine == pc = "scan" /\ \E ln \in Lines : ScanLine(ln)
EndOfOutput ==
    pc = "scan" /\ \E tooLong \in BOOLEAN, pipeFull \in BOOLEAN : ScanEnd(tooLong, pipeFull)

Next ==
    \/ Receive
    \/ RunNonStreaming
    \/ StartStream
    \/ ReadLine
    \/ EndOfOutput
    \/ CmdWait

Spec == Init /\ [][Next]_vars

\* the handling of one request under fairness: a request that arrives is
\* handled, each call of an invoker returns, scanner.Scan() returns when the
\* subprocess writes a line or closes its output, and cmd.Wait() returns
\* when the subprocess can exit
Fairness ==
    /\ WF_vars(Receive)
    /\ WF_vars(RunNonStreaming)
    /\ WF_vars(StartStream)
    /\ WF_vars(ReadLine \/ EndOfOutput)
    /\ WF_vars(CmdWait)

SpecLive == Init /\ [][Next]_vars /\ Fairness

\* the handling of one request whose client may disconnect mid-stream
NextDisconnect == Next \/ ClientDisconnect

SpecDisconnect == Init /\ [][NextDisconnect]_vars

(***************************************************************************)
(* normalizeModel on its own: a model name is normalized, and the result   *)
(* is normalized again.                                                    *)
(***************************************************************************)
HandlerIdle ==
    /\ envModel = <<>>
    /\ apiKey = Secret
    /\ defaultModel = Sonnet
    /\ pc = "idle"
    /\ req = NoRequest
    /\ systemPrompt = <<>>
    /\ userPrompt = <<>>
    /\ model = <<>>
    /\ status = 0
    /\ headers = {}
    /\ out = <<>>
    /\ procs = <<>>
    /\ sentRole = FALSE
    /\ chatID = <<>>
    /\ created = 0
    /\ lines = <<>>
    /\ scanErr = FALSE
    /\ errlog = <<>>
    /\ conn = "open"
    /\ writeErrs = 0
    /\ handlers = NoHandlers

Pieces ==
    {ClaudeDash, ClaudeUnderscore, <<"C","l","a","u","d","e","-">>,
     Haiku, Sonnet, <<"O","p","u","s">>, <<" ">>, <<"x">>, <<"-","4">>}

RECURSIVE Concats(_)
Concats(n) ==
    IF n = 0 THEN {<<>>}
    ELSE LET prev == Concats(n - 1)
         IN  prev \cup {p \o q : p \in prev, q \in Pieces}

ModelNames == Concats(MaxPieces)

InitNormalize ==
    /\ HandlerIdle
    /\ fn \in {[phase |-> "arg", arg |-> a, once |-> <<>>, twice |-> <<>>] :
                 a \in ModelNames}

NormalizeOnce ==
    /\ fn.phase = "arg"
    /\ fn' = [fn EXCEPT !.phase = "once", !.once = normalizeModel(fn.arg)]
    /\ UNCHANGED handlerVars

NormalizeTwice ==
    /\ fn.phase = "once"
    /\ fn' = [fn EXCEPT !.phase = "twice", !.twice = normalizeModel(fn.once)]
    /\ UNCHANGED handlerVars

NextNormalize == NormalizeOnce \/ NormalizeTwice

SpecNormalize == InitNormalize /\ [][NextNormalize]_vars

(***************************************************************************)
(* The prompt assembler on its own.                                        *)
(***************************************************************************)
Roles == {"system", "user", "assistant", "tool"}
Contents == {<<>>, <<"A">>, <<"B">>}
Messages == [role : Roles, content : Contents]
MessageLists == UNION {[1..k -> Messages] : k \in 0..MaxMessages}

InitAssemble ==
    /\ HandlerIdle
    /\ fn \in {[phase |-> "arg", arg |-> ms, res |-> [sys |-> <<>>, usr |-> <<>>]] :
                 ms \in MessageLists}

AssemblePrompt ==
    /\ fn.phase = "arg"
    /\ fn' = [fn EXCEPT !.phase = "done", !.res = Assemble(fn.arg)]
    /\ UNCHANGED handlerVars

NextAssemble == AssemblePrompt

SpecAssemble == InitAssemble /\ [][NextAssemble]_vars

(***************************************************************************)
(* Several requests handled at once (SpecConcurrent).  net/http runs each  *)
(* call of handleChat in its own goroutine; `handlers` holds the locals of *)
(* each call, and apiKey and defaultModel are the package-level variables  *)
(* they all read.  A step of a handler is written as a function from its  *)
(* locals to its locals.                                                   *)
(***************************************************************************)
HandlerIds == {1, 2}
MaxConcLines == 2

\* no result of cmd.Output() yet
NoResult == [started |-> FALSE, ok |-> FALSE, exit |-> NoExit, stdout |-> <<>>,
             stderr |-> "", err |-> ""]

\* the locals of a call of handleChat that has not begun: the request, what
\* handleChat computes from it, what was written to its ResponseWriter, the
\* arguments of its subprocess, the locals of the streaming loop, and what
\* its environment gave it (clock readings, cmd.Start() and cmd.Output())
IdleHandler ==
    [pc |-> "idle", req |-> NoRequest, systemPrompt |-> <<>>, userPrompt |-> <<>>,
     model |-> <<>>, status |-> 0, out |-> <<>>, args |-> <<>>,
     sentRole |-> FALSE, chatID |-> <<>>, created |-> 0, lines |-> <<>>,
     clock |-> <<0, 0>>, startOK |-> TRUE, res |-> NoResult]

\* sendError (src/main.go 429-435) and return
LocalReject(l, code, message) ==
    [l EXCEPT !.status = WriteHeader(l.status, code),
              !.out = Append(l.out, JSONBody(ErrorEnvelope(message))),
              !.pc = "done"]

\* handleChat up to the call of an invoker (src/main.go 136-209); key and
\* dflt are the package-level apiKey and defaultModel as the call reads them
LocalHandleChat(l, r, key, dflt) ==
    LET got == [l EXCEPT !.req = r]
    IN  IF ~AuthOK(r.auth, key) THEN LocalReject(got, 401, <<"Invalid API key">>)
        ELSE IF ~MethodAllowed(r.method)
        THEN LocalReject(got, 405, <<"Method not allowed">>)
        ELSE IF ~r.readOK THEN LocalReject(got, 400, <<"Failed to read request">>)
        ELSE IF ~r.jsonOK THEN LocalReject(got, 400, <<"Invalid JSON">>)
        ELSE LET p == Assemble(r.chat.messages)
             IN  [got EXCEPT !.systemPrompt = p.sys,
                             !.userPrompt = p.usr,
                             !.model = RequestModel(r.chat.model, dflt),
                             !.pc = IF r.chat.stream THEN "stream" ELSE "nonstream"]

\* handleNonStreamingRequest (src/main.go 211-264)
LocalNonStreaming(l, res, t1, t2) ==
    [l EXCEPT !.res = res,
              !.clock = <<t1, t2>>,
              !.args = NonStreamingArgs(l.model, l.systemPrompt),
              !.status = IF res.ok THEN Written(l.status)
                         ELSE WriteHeader(l.status, 500),
              !.out = Append(l.out,
                        IF res.ok
                        THEN JSONBody(MarshalResponse(
                                 CompletionResponse(t1, t2, l.model, l.systemPrompt,
                                                    l.userPrompt, TrimSpace(res.stdout))))
                        ELSE JSONBody(ErrorEnvelope(CliFailureMessage(res)))),
              !.pc = "done"]

\* handleStreamingRequest up to the loop (src/main.go 266-311), on a
\* ResponseWriter that is a Flusher
LocalStreamStart(l, startOK, t1, t2) ==
    IF ~startOK
    THEN [l EXCEPT !.startOK = FALSE,
                   !.status = Written(l.status),
                   !.out = l.out \o SSEError(<<"Failed to start Claude CLI">>),
                   !.pc = "done"]
    ELSE [l EXCEPT !.clock = <<t1, t2>>,
                   !.args = StreamingArgs(l.model, l.systemPrompt),
                   !.chatID = NewChatID(t1),
                   !.created = Unix(t2),
                   !.sentRole = FALSE,
                   !.pc = "scan"]

\* chatID, created and model as the loop of this call uses them
LocalCtx(l) == [id |-> l.chatID, created |-> l.created, model |-> l.model]

\* one iteration of the loop (src/main.go 313-386) on the line ln, with sr the
\* value the iteration reads for sentRole
LocalScanLine(l, ln, sr) ==
    LET r == ProcessLine(ln, sr, LocalCtx(l))
    IN  [l EXCEPT !.lines = Append(l.lines, ln),
                  !.sentRole = r.sentRole,
                  !.out = l.out \o [i \in 1..Len(r.chunks) |-> SSEChunk(r.chunks[i])],
                  !.status = IF r.chunks # <<>> THEN Written(l.status) ELSE l.status]

\* the final chunk and [DONE] (src/main.go 388-404)
LocalScanEnd(l) ==
    [l EXCEPT !.out = l.out \o <<SSEChunk(FinalChunk(LocalCtx(l))), SSEDone>>,
              !.status = Written(l.status),
              !.pc = "wait"]

\* cmd.Wait() returns (src/main.go 406)
LocalWait(l) == [l EXCEPT !.pc = "done"]

\* a role-sent flag that is one package-level variable for all the calls
RoleSentFor_Shared(i) == \E j \in HandlerIds : handlers[j].sentRole

\* sentRole is a local of handleStreamingRequest (src/main.go 306): call i
\* reads its own
RoleSentFor(i) == handlers[i].sentRole

\* the requests, lines and results the concurrent calls are given
Req(auth, method, chat) ==
    [auth |-> auth, method |-> method, readOK |-> TRUE, jsonOK |-> TRUE, chat |-> chat]

ConcRequests ==
    {Req(BearerSp \o Secret, "POST",
         [model |-> <<>>, stream |-> TRUE,
          messages |-> <<[role |-> "user", content |-> <<"U">>]>>]),
     Req(BearerSp \o Secret, "POST",
         [model |-> <<"C","l","a","u","d","e","-","H","a","i","k","u","-","4">>,
          stream |-> TRUE,
          messages |-> <<[role |-> "system", content |-> <<"S">>],
                         [role |-> "user", content |-> <<"V">>]>>]),
     Req(BearerSp \o Secret, "POST",
         [model |-> <<>>, stream |-> FALSE,
          messages |-> <<[role |-> "user", content |-> <<"U">>]>>]),
     Req(BearerSp \o <<"b","a","d">>, "POST",
         [model |-> <<>>, stream |-> TRUE,
          messages |-> <<[role |-> "user", content |-> <<"U">>]>>])}

ConcLines ==
    {BadLine, AssistantLine(JArr(<<Item(<<"a">>)>>)), ResultLine(JStr(<<"r">>))}

\* call i takes the step that leaves its locals as next; nothing else changes
ConcStep(i, next) ==
    /\ handlers' = [handlers EXCEPT ![i] = next]
    /\ UNCHANGED <<envModel, apiKey, defaultModel, pc, req, systemPrompt,
                   userPrompt, model, status, headers, out, procs, sentRole,
                   chatID, created, lines, scanErr, errlog, conn, writeErrs, fn>>

ConcReceive ==
    \E i \in HandlerIds :
        handlers[i].pc = "idle" /\ \E r \in ConcRequests :
            ConcStep(i, LocalHandleChat(handlers[i], r, apiKey, defaultModel))

ConcRunNonStreaming ==
    \E i \in HandlerIds :
        handlers[i].pc = "nonstream" /\ \E res \in CliResults, t1 \in Times, t2 \in Times :
            t1 < t2 /\ ConcStep(i, LocalNonStreaming(handlers[i], res, t1, t2))

ConcStartStream ==
    \E i \in HandlerIds :
        handlers[i].pc = "stream" /\ \E startOK \in BOOLEAN, t1 \in Times, t2 \in Times :
            t1 < t2 /\ ConcStep(i, LocalStreamStart(handlers[i], startOK, t1, t2))

ConcReadLine ==
    \E i \in HandlerIds :
        /\ handlers[i].pc = "scan"
        /\ Len(handlers[i].lines) < MaxConcLines
        /\ \E ln \in ConcLines :
              ConcStep(i, LocalScanLine(handlers[i], ln, RoleSentFor(i)))

ConcEndOfOutput ==
    \E i \in HandlerIds :
        handlers[i].pc = "scan" /\ ConcStep(i, LocalScanEnd(handlers[i]))

ConcWait ==
    \E i \in HandlerIds :
        handlers[i].pc = "wait" /\ ConcStep(i, LocalWait(handlers[i]))

\* main has run; no call of handleChat has begun
InitConcurrent ==
    /\ envModel \in EnvModels
    /\ apiKey \in ApiKeys
    /\ defaultModel = MainDefaultModel(envModel)
    /\ pc = "idle"
    /\ req = NoRequest
    /\ systemPrompt = <<>>
    /\ userPrompt = <<>>
    /\ model = <<>>
    /\ status = 0
    /\ headers = {}
    /\ out = <<>>
    /\ procs = <<>>
    /\ sentRole = FALSE
    /\ chatID = <<>>
    /\ created = 0
    /\ lines = <<>>
    /\ scanErr = FALSE
    /\ errlog = <<>>
    /\ conn = "open"
    /\ writeErrs = 0
    /\ fn = NoFn
    /\ handlers = [i \in HandlerIds |-> IdleHandler]

NextConcurrent ==
    \/ ConcReceive
    \/ ConcRunNonStreaming
    \/ ConcStartStream
    \/ ConcReadLine
    \/ ConcEndOfOutput
    \/ ConcWait

SpecConcurrent == InitConcurrent /\ [][NextConcurrent]_vars

(***************************************************************************)
(* Properties of normalizeModel (SpecNormalize).                           *)
(***************************************************************************)
\* the name lower-cased, trimmed and without one leading vendor prefix
Stripped(s) ==
    LET t == TrimSpace(ToLower(s))
    IN  IF HasPrefix(t, ClaudeDash) \/ HasPrefix(t, ClaudeUnderscore)
        THEN SubSeq(t, Len(ClaudeDash) + 1, Len(t))
        ELSE t

\* the name is recognized as haiku, sonnet or opus
Recognized(s) == \E i \in 1..Len(Bases) : HasPrefix(Stripped(s), Bases[i])

\* C5: normalizeModel is idempotent, normalizeModel(normalizeModel(s)) =
\* normalizeModel(s) for every s, and haiku, sonnet and opus are returned
\* unchanged.
C5_Idempotent ==
    /\ fn.phase = "twice" => fn.twice = fn.once
    /\ (fn.phase # "arg" /\ \E i \in 1..Len(Bases) : fn.arg = Bases[i])
          => fn.once = fn.arg

\* C7: a non-empty name that is not recognized as haiku, sonnet or opus is
\* returned unchanged.
C7_UnrecognizedUnchanged ==
    (fn.phase # "arg" /\ fn.arg # <<>> /\ ~Recognized(fn.arg)) => fn.once = fn.arg

\* C8: a name which, lower-cased, trimmed and without its vendor prefix,
\* begins with haiku, sonnet or opus is normalized to exactly that base, the
\* first base in that order that is a prefix, whatever follows it and
\* whatever the case of the letters.
C8_BaseOfVersionedName ==
    fn.phase # "arg" =>
        \A i \in 1..Len(Bases) :
            (/\ HasPrefix(Stripped(fn.arg), Bases[i])
             /\ \A j \in 1..(i - 1) : ~HasPrefix(Stripped(fn.arg), Bases[j]))
            => fn.once = Bases[i]

\* " Claude-Opus-4" has been normalized to opus
C8_Witness ==
    /\ fn.phase = "once"
    /\ fn.arg = <<" ">> \o <<"C","l","a","u","d","e","-">> \o <<"O","p","u","s">>
    /\ fn.once = Opus

(***************************************************************************)
(* Properties of the prompt assembler (SpecAssemble).                      *)
(***************************************************************************)
\* the contents of the messages of one role, in request order
RECURSIVE ContentsOf(_, _)
ContentsOf(msgs, role) ==
    IF msgs = <<>> THEN <<>>
    ELSE (IF Head(msgs).role = role THEN <<Head(msgs).content>> ELSE <<>>)
         \o ContentsOf(Tail(msgs), role)

\* the strings of ss joined by sep
RECURSIVE Join(_, _)
Join(ss, sep) ==
    IF ss = <<>> THEN <<>>
    ELSE IF Len(ss) = 1 THEN ss[1]
    ELSE ss[1] \o sep \o Join(Tail(ss), sep)

\* the body text: each user content and a newline, each assistant content in
\* its marker and a newline, in request order
RECURSIVE Body(_)
Body(msgs) ==
    IF msgs = <<>> THEN <<>>
    ELSE LET m == Head(msgs)
         IN  (CASE m.role = "user" -> m.content \o <<"\n">>
                [] m.role = "assistant" ->
                     PrevOpen \o m.content \o <<"]">> \o <<"\n">>
                [] OTHER -> <<>>)
             \o Body(Tail(msgs))

\* C9: the assembled prompt is the reference: systemText is the system
\* contents joined by a blank line in request order, bodyText the user and
\* assistant renderings in request order, and other roles add nothing.
C9_AssembledIsReference ==
    fn.phase = "done" =>
        /\ fn.res.sys = Join(ContentsOf(fn.arg, "system"), NLNL)
        /\ fn.res.usr = Body(fn.arg)

(***************************************************************************)
(* Properties of the streaming response (Spec).                            *)
(***************************************************************************)
\* the subprocess of a streaming request was started
StreamStarted == pc \in {"scan", "wait", "done"} /\ req.chat.stream /\ procs # <<>>

\* the delta of a frame that is a chunk
DeltaOf(f) == f.obj.choices[1].delta

\* a chunk that carries non-empty delta.content
HasContent(f) == f.frame = "data" /\ "content" \in DOMAIN DeltaOf(f)

\* a chunk whose delta carries role = "assistant" and nothing else
RoleOnly(f) ==
    /\ f.frame = "data"
    /\ DOMAIN DeltaOf(f) = {"role"}
    /\ DeltaOf(f).role = "assistant"

\* a chunk that carries a finish reason
HasFinish(f) == f.frame = "data" /\ "finish_reason" \in DOMAIN f.obj.choices[1]

\* the terminal chunk: an empty delta and finish_reason = "stop"
StopChunk(f) ==
    /\ HasFinish(f)
    /\ f.obj.choices[1].finish_reason = "stop"
    /\ DOMAIN DeltaOf(f) = {}

\* out[i] is the first chunk with content
FirstContent(i) == HasContent(out[i]) /\ \A j \in 1..(i - 1) : ~HasContent(out[j])

\* C1: in a started stream the first chunk with non-empty delta.content is
\* immediately preceded by a chunk of the same id whose delta carries only
\* role = "assistant".
C1_RoleChunkBeforeFirstContent ==
    StreamStarted =>
        \A i \in 1..Len(out) :
            FirstContent(i) =>
                /\ i > 1
                /\ RoleOnly(out[i - 1])
                /\ out[i - 1].obj.id = out[i].obj.id

\* C1, amended: in a started stream the first chunk with non-empty
\* delta.content is immediately preceded by a chunk of the same id whose
\* delta carries only role = "assistant", or it is the first chunk of the
\* stream and itself carries role = "assistant" with the content.
C1_RoleBeforeOrWithFirstContent ==
    StreamStarted =>
        \A i \in 1..Len(out) :
            FirstContent(i) =>
                \/ /\ i > 1
                   /\ RoleOnly(out[i - 1])
                   /\ out[i - 1].obj.id = out[i].obj.id
                   /\ DOMAIN DeltaOf(out[i]) = {"content"}
                \/ /\ i = 1
                   /\ DOMAIN DeltaOf(out[i]) = {"role", "content"}
                   /\ DeltaOf(out[i]).role = "assistant"

\* a finished stream that began with a role-only chunk and a content chunk
C1_Witness ==
    /\ StreamStarted
    /\ pc = "done"
    /\ Len(out) >= 4
    /\ RoleOnly(out[1])
    /\ FirstContent(2)

\* C2: a started stream ends with exactly one chunk with an empty delta and
\* finish_reason = "stop", immediately followed by [DONE]; no chunk carries a
\* finish reason before it and nothing follows the terminator.
C2_EndsWithStopThenDone ==
    StreamStarted =>
        /\ pc = "scan" =>
              \A i \in 1..Len(out) : out[i].frame = "data" /\ ~HasFinish(out[i])
        /\ pc \in {"wait", "done"} =>
              /\ Len(out) >= 2
              /\ out[Len(out)] = SSEDone
              /\ StopChunk(out[Len(out) - 1])
              /\ \A i \in 1..(Len(out) - 2) :
                    out[i].frame = "data" /\ ~HasFinish(out[i])

\* a stream that ended after a role chunk and two content chunks had been sent
C2_Witness ==
    /\ StreamStarted
    /\ pc = "done"
    /\ sentRole
    /\ Len(out) = 5
    /\ out[5] = SSEDone

\* the non-empty text fragments of an assistant-content event, in order
RECURSIVE TextsOf(_)
TextsOf(items) ==
    IF items = <<>> THEN <<>>
    ELSE LET c == Head(items)
             t == IF c.j = "object" /\ "text" \in DOMAIN c.v THEN c.v.text ELSE JNull
         IN  (IF t.j = "string" /\ t.v # <<>> THEN <<t.v>> ELSE <<>>)
             \o TextsOf(Tail(items))

\* the line is an event of the given type
IsEvent(ln, type) ==
    /\ ln.k = "object"
    /\ "type" \in DOMAIN ln.o
    /\ ln.o.type = JStr(type)

\* the fragments an assistant-content event carries
Fragments(ln) ==
    IF /\ IsEvent(ln, "assistant")
       /\ "message" \in DOMAIN ln.o
       /\ ln.o.message.j = "object"
       /\ "content" \in DOMAIN ln.o.message.v
       /\ ln.o.message.v.content.j = "array"
    THEN TextsOf(ln.o.message.v.content.v)
    ELSE <<>>

\* the non-empty result string a final-result event carries, <<>> when none
ResultOf(ln) ==
    IF /\ IsEvent(ln, "result")
       /\ "result" \in DOMAIN ln.o
       /\ ln.o.result.j = "string"
    THEN ln.o.result.v
    ELSE <<>>

IsErrorEnvelope(f) ==
    /\ f.frame = "json"
    /\ DOMAIN f.obj = {"error"}
    /\ DOMAIN f.obj.error = {"message", "type"}

\* C4: a request whose Authorization header is not exactly "Bearer <secret>"
\* is answered with 401 and the error envelope, and no subprocess is spawned,
\* whatever its method, body and stream flag.
C4_BadAuthRejected ==
    (pc # "idle" /\ req.auth # BearerSp \o apiKey) =>
        /\ pc = "done"
        /\ status = 401
        /\ Len(out) = 1
        /\ IsErrorEnvelope(out[1])
        /\ procs = <<>>

\* a POST with a decodable streaming body and the secret followed by one more
\* character has been rejected
C4_Witness ==
    /\ pc = "done"
    /\ req.auth = BearerSp \o apiKey \o <<"x">>
    /\ req.method = "POST"
    /\ req.jsonOK
    /\ req.chat.stream
    /\ status = 401

\* the model of a frame that is a completion or a chunk
ModelsEchoed == {out[i].obj.model : i \in {j \in 1..Len(out) :
                    out[j].frame \in {"json", "data"} /\ "model" \in DOMAIN out[j].obj}}

\* the value of --model in the arguments of a subprocess
ModelArg(p) == p.args[2][2]

\* C6: a request with an empty model is invoked with, and echoes, the
\* default model configured at startup, whatever that default is.
C6_EmptyModelUsesDefault ==
    (procs # <<>> /\ req.chat.model = <<>>) =>
        /\ ModelArg(procs[1]) = defaultModel
        /\ \A m \in ModelsEchoed : m = defaultModel

\* C10: on both paths the model given to the subprocess as --model is the
\* model of every completion or chunk returned for the request.
C10_ModelEchoed ==
    \A i \in 1..Len(procs) :
        /\ procs[i].args[2][1] = "--model"
        /\ \A m \in ModelsEchoed : m = ModelArg(procs[i])

\* a finished stream of haiku with at least two chunks before [DONE]
C10_Witness ==
    /\ pc = "done"
    /\ req.chat.stream
    /\ procs # <<>>
    /\ ModelArg(procs[1]) = Haiku
    /\ Len(out) >= 3
    /\ ModelsEchoed = {Haiku}

\* the body of a successful non-streaming response: a completion
IsCompletion(f) == f.frame = "json" /\ "usage" \in DOMAIN f.obj

\* C11: in every successful non-streaming response prompt_tokens is the
\* prompt character count divided by 4, completion_tokens is the output
\* character count divided by 4, and total_tokens is their sum.
C11_TotalIsSumOfParts ==
    \A i \in 1..Len(out) :
        IsCompletion(out[i]) =>
            LET u == out[i].obj.usage
                response == out[i].obj.choices[1].message.content
            IN  /\ u.prompt_tokens = (Len(systemPrompt) + Len(userPrompt)) \div 4
                /\ u.completion_tokens = Len(response) \div 4
                /\ u.total_tokens = u.prompt_tokens + u.completion_tokens

\* C12: no chunk written on the streaming path has a "usage" member or a
\* "message" member in its serialized form; a chunk carries only a delta.
C12_ChunkCarriesOnlyDelta ==
    StreamStarted =>
        \A i \in 1..Len(out) :
            out[i].frame = "data" =>
                /\ "usage" \notin DOMAIN out[i].obj
                /\ "message" \notin DOMAIN out[i].obj.choices[1]
                /\ "delta" \in DOMAIN out[i].obj.choices[1]

\* the positions of the chunks in the response body
ChunkPositions == {i \in 1..Len(out) : out[i].frame = "data"}

\* C13: within one streaming response every chunk written (role-only,
\* content, fallback, terminal) carries the id and the created timestamp that
\* were fixed before the first line was read: all chunks agree on both.
C13_OneIdOneTimestamp ==
    StreamStarted =>
        /\ \A i \in ChunkPositions :
              /\ out[i].obj.id = chatID
              /\ out[i].obj.created = created
        /\ \A i, j \in ChunkPositions :
              /\ out[i].obj.id = out[j].obj.id
              /\ out[i].obj.created = out[j].obj.created

\* a finished stream of a role chunk, a content chunk and the terminal chunk,
\* whose id and timestamp were taken at two different instants
C13_Witness ==
    /\ StreamStarted
    /\ pc = "done"
    /\ chatID = NewChatID(1)
    /\ created = Unix(NanosPerSecond)
    /\ Len(out) = 4
    /\ RoleOnly(out[1])
    /\ HasContent(out[2])
    /\ StopChunk(out[3])

\* the output pipe could not be attached, or the subprocess could not be
\* started: what the streaming invoker logs in those two cases
PipeFailed == \E i \in 1..Len(errlog) : errlog[i].what = "Failed to create stdout pipe: "
StartFailed == \E i \in 1..Len(errlog) : errlog[i].what = "Failed to start Claude CLI: "

\* an SSE error event: {error: {message, type}}
IsSSEErrorEvent(f) ==
    /\ f.frame = "error"
    /\ DOMAIN f.obj = {"error"}
    /\ DOMAIN f.obj.error = {"message", "type"}

\* C14: on the streaming path, when the output pipe cannot be attached or
\* the subprocess cannot be started, the response is exactly one SSE error
\* event followed by the [DONE] terminator: no chunk and no non-streaming
\* JSON body is written.
C14_StartFailureIsErrorThenDone ==
    (PipeFailed \/ StartFailed) =>
        /\ req.chat.stream
        /\ pc = "done"
        /\ Len(out) = 2
        /\ IsSSEErrorEvent(out[1])
        /\ out[2] = SSEDone
        /\ \A i \in 1..Len(out) : out[i].frame \notin {"data", "json", "text"}

\* a streaming request whose subprocess could not be started, answered
C14_Witness ==
    /\ StartFailed
    /\ pc = "done"
    /\ req.chat.stream
    /\ out # <<>>
    /\ out[1].frame = "error"

\* a streaming request whose output pipe could not be attached, answered
C14_WitnessPipe ==
    /\ PipeFailed
    /\ pc = "done"
    /\ out # <<>>

\* a non-streaming request whose subprocess could not be launched (NoExit) or
\* exited non-zero
NonStreamingFailed ==
    /\ pc = "done"
    /\ ~req.chat.stream
    /\ procs # <<>>
    /\ procs[1].exit # 0

\* the log holds the given line
Logged(line) == \E i \in 1..Len(errlog) : errlog[i] = line

\* C15: on the non-streaming path, when the subprocess fails to launch or
\* exits non-zero, the response is status 500 with the error envelope of type
\* "error" and no completion, the subprocess was launched once, and its
\* captured standard error is logged and is not in the response body.
C15_FailureIs500WithoutStderr ==
    NonStreamingFailed =>
        /\ status = 500
        /\ Len(out) = 1
        /\ IsErrorEnvelope(out[1])
        /\ out[1].obj.error.type = "error"
        /\ ~IsCompletion(out[1])
        /\ Len(procs) = 1
        /\ \E i \in 1..Len(errlog) : errlog[i].what = "Claude CLI error: "
        /\ procs[1].started => Logged(LogLine("Stderr: ", procs[1].stderr))
        /\ procs[1].stderr # "" =>
              \A k \in 1..Len(out[1].obj.error.message) :
                  out[1].obj.error.message[k] # procs[1].stderr

\* a non-streaming request whose subprocess wrote to its standard error and
\* exited with status 1, answered
C15_Witness ==
    /\ NonStreamingFailed
    /\ procs[1].started
    /\ procs[1].exit = 1
    /\ procs[1].stderr # ""
    /\ status = 500

\* a non-streaming request whose subprocess could not be launched, answered
C15_WitnessLaunch ==
    /\ NonStreamingFailed
    /\ ~procs[1].started
    /\ status = 500

\* C16: on the streaming path, once a write of a chunk to the client
\* connection has failed, the event loop has stopped: the failed write is the
\* only one, and the handler no longer reads lines of the subprocess.
C16_WriteFailureStopsLoop ==
    (StreamStarted /\ writeErrs > 0) =>
        /\ pc # "scan"
        /\ writeErrs = 1

\* the handler has returned
Returned == pc = "done"

\* C17: on every path, when the handler returns, every subprocess that was
\* started for the request has been waited on.
C17_StartedIsWaitedAtReturn ==
    Returned => \A i \in 1..Len(procs) : procs[i].started => procs[i].waited

\* a streaming request whose subprocess was started, at the handler's return
C17_Witness ==
    /\ Returned
    /\ StreamStarted
    /\ Len(procs) = 1
    /\ procs[1].started
    /\ procs[1].waited
    /\ lines # <<>>

\* the step in which cmd.Wait() returns and the exit status becomes known
WaitReturns == pc = "wait" /\ pc' = "done"

\* C18: on the streaming path, once the subprocess has been started, its
\* exit status never changes what is sent: the response was complete (chunks,
\* stop chunk, terminator) before the status is known, the step that learns
\* the status writes nothing and takes nothing back, whatever the status is,
\* and no SSE error event is ever part of the stream.
C18_ExitStatusNotSurfaced ==
    /\ [](StreamStarted => \A i \in 1..Len(out) : out[i].frame \in {"data", "done"})
    /\ [][WaitReturns => (out' = out /\ status' = status /\ headers' = headers)]_vars
    /\ [][(StreamStarted /\ pc # "wait") => procs'[1].exit = procs[1].exit]_vars

\* a started stream with a content chunk whose subprocess exited with status 1,
\* at the handler's return
C18_Witness ==
    /\ StreamStarted
    /\ pc = "done"
    /\ procs[1].exit = 1
    /\ Len(out) >= 4
    /\ HasContent(out[2])
    /\ out[Len(out)] = SSEDone
    /\ StopChunk(out[Len(out) - 1])

\* the request was answered with the given status and the error envelope, and
\* no subprocess was spawned
RejectedWith(code) ==
    /\ pc = "done"
    /\ status = code
    /\ Len(out) = 1
    /\ IsErrorEnvelope(out[1])
    /\ out[1].obj.error.type = "error"
    /\ procs = <<>>

\* the request carried exactly "Bearer <secret>"
Authorized == req.auth = BearerSp \o apiKey

\* C19 as stated: every request whose method is not POST is answered with
\* 405 and the error envelope, and every POST whose body is not parseable
\* JSON with 400 and the error envelope; no subprocess is spawned.
C19_NonPostIs405_BadBodyIs400 ==
    pc # "idle" =>
        /\ req.method # "POST" => RejectedWith(405)
        /\ (req.method = "POST" /\ ~req.jsonOK) => RejectedWith(400)

\* C19 amended: the same of every request that carries the exact
\* Authorization header (a request without it is answered 401 first).
C19_AuthorizedNonPostIs405_BadBodyIs400 ==
    (pc # "idle" /\ Authorized) =>
        /\ req.method # "POST" => RejectedWith(405)
        /\ (req.method = "POST" /\ ~req.jsonOK) => RejectedWith(400)

\* an authorized GET with a decodable streaming body, answered 405
C19_Witness ==
    /\ pc = "done"
    /\ Authorized
    /\ req.method = "GET"
    /\ req.jsonOK
    /\ req.chat.stream
    /\ status = 405

\* an authorized POST whose body was read and is not JSON, answered 400
C19_WitnessBadJSON ==
    /\ pc = "done"
    /\ Authorized
    /\ req.method = "POST"
    /\ req.readOK
    /\ ~req.jsonOK
    /\ status = 400

\* C20: when CLAUDE_MODEL is not set at startup the process-wide default
\* model is haiku, and a request that names no model is served with haiku.
C20_UnsetEnvDefaultsToHaiku ==
    envModel = <<>> =>
        /\ defaultModel = Haiku
        /\ (procs # <<>> /\ req.chat.model = <<>>) =>
              /\ ModelArg(procs[1]) = Haiku
              /\ \A m \in ModelsEchoed : m = Haiku

(***************************************************************************)
(* Properties of the event loop as a whole (Spec).                         *)
(***************************************************************************)
\* the chunks written by the loop: the body without the terminal chunk and
\* the terminator
LoopFrames == IF pc = "scan" THEN out ELSE SubSeq(out, 1, Len(out) - 2)

\* the lines of s that were decoded to a JSON object, in order
RECURSIVE Parseable(_)
Parseable(s) ==
    IF s = <<>> THEN <<>>
    ELSE (IF Head(s).k = "object" THEN <<Head(s)>> ELSE <<>>) \o Parseable(Tail(s))

\* the loop run on the lines of s from the role-sent flag sr: the frames it
\* writes and the flag it ends with
RECURSIVE RunLoop(_, _, _)
RunLoop(s, sr, ctx) ==
    IF s = <<>> THEN [sentRole |-> sr, frames |-> <<>>]
    ELSE LET r == ProcessLine(Head(s), sr, ctx)
             rest == RunLoop(Tail(s), r.sentRole, ctx)
         IN  [sentRole |-> rest.sentRole,
              frames |-> [i \in 1..Len(r.chunks) |-> SSEChunk(r.chunks[i])]
                         \o rest.frames]

\* the step reads a line that is empty or is not a JSON object
ReadsBadLine ==
    /\ pc = "scan"
    /\ Len(lines') = Len(lines) + 1
    /\ lines'[Len(lines')].k # "object"

\* C21: in the event loop a line that is empty or does not parse as a JSON
\* object writes no chunk and leaves the role-sent flag, the id and the
\* timestamp as they were, and the chunks written for the lines read are
\* those of the same lines with the unparseable ones removed.
C21_BadLinesAreSkipped ==
    /\ [](StreamStarted =>
            LET clean == RunLoop(Parseable(lines), FALSE, Ctx)
            IN  /\ LoopFrames = clean.frames
                /\ sentRole = clean.sentRole)
    /\ [][ReadsBadLine => /\ out' = out
                          /\ sentRole' = sentRole
                          /\ chatID' = chatID
                          /\ created' = created
                          /\ pc' = "scan"]_vars

\* a finished stream in which an unparseable line was read after the role
\* chunk was sent and before another event with a fragment
C21_Witness ==
    /\ StreamStarted
    /\ pc = "done"
    /\ Len(lines) = 3
    /\ Fragments(lines[1]) # <<>>
    /\ lines[2] = BadLine
    /\ Fragments(lines[3]) # <<>>
    /\ Len(out) = 5

\* the fallback chunk: a delta with role = "assistant" and content together
IsFallback(f) ==
    /\ f.frame = "data"
    /\ DOMAIN DeltaOf(f) = {"role", "content"}
    /\ DeltaOf(f).role = "assistant"

\* the step reads a final-result event
ReadsResult ==
    /\ pc = "scan"
    /\ Len(lines') = Len(lines) + 1
    /\ IsEvent(lines'[Len(lines')], "result")

\* C22: a final-result event writes a chunk only when no role has been sent
\* yet and its result is a non-empty string, and then it writes the one
\* fallback chunk with the full result; once a role chunk or the fallback
\* chunk was written, a final-result event writes nothing.  So the fallback
\* chunk is the first chunk of its stream and there is at most one.
C22_FallbackOnlyBeforeRole ==
    /\ [][ReadsResult =>
            LET result == ResultOf(lines'[Len(lines')])
            IN  IF ~sentRole /\ result # <<>>
                THEN /\ Len(out') = Len(out) + 1
                     /\ SubSeq(out', 1, Len(out)) = out
                     /\ IsFallback(out'[Len(out')])
                     /\ DeltaOf(out'[Len(out')]).content = result
                     /\ sentRole'
                ELSE /\ out' = out
                     /\ sentRole' = sentRole]_vars
    /\ [](StreamStarted =>
            /\ \A i \in 1..Len(out) : IsFallback(out[i]) => i = 1
            /\ (out # <<>> /\ pc = "scan") => sentRole)

\* a finished stream in which a final-result event with a result was read
\* after an assistant-content event with one fragment, and wrote nothing
C22_Witness ==
    /\ StreamStarted
    /\ pc = "done"
    /\ Len(lines) = 2
    /\ Len(Fragments(lines[1])) = 1
    /\ ResultOf(lines[2]) # <<>>
    /\ Len(out) = 4
    /\ RoleOnly(out[1])

\* a chunk whose delta carries role = "assistant" (the role chunk or the
\* fallback chunk)
HasRole(f) ==
    /\ f.frame = "data"
    /\ "role" \in DOMAIN DeltaOf(f)
    /\ DeltaOf(f).role = "assistant"

\* the state of the stream: 0 AWAITING_ROLE, 1 STREAMING, 2 DONE
StreamState ==
    IF pc = "scan" THEN (IF sentRole THEN 1 ELSE 0) ELSE 2

\* C23: the state of a stream only moves forward, AWAITING_ROLE -> STREAMING
\* -> DONE: at most one chunk carries delta.role = "assistant", it comes
\* before every other chunk with content, and nothing but the terminator
\* follows the terminal stop chunk.
C23_StreamStateMovesForward ==
    /\ [][StreamStarted => StreamState' >= StreamState]_vars
    /\ [](StreamStarted =>
            /\ Cardinality({i \in 1..Len(out) : HasRole(out[i])}) <= 1
            /\ \A i, j \in 1..Len(out) :
                  (HasRole(out[i]) /\ HasContent(out[j]) /\ j # i) => i < j
            /\ \A i, j \in 1..Len(out) :
                  (HasFinish(out[i]) /\ i < j) => out[j] = SSEDone
            /\ StreamState = 0 => out = <<>>
            /\ StreamState = 1 => \E i \in 1..Len(out) : HasRole(out[i]))

\* a finished stream of one role chunk followed by two content chunks
C23_Witness ==
    /\ StreamStarted
    /\ pc = "done"
    /\ Len(out) >= 5
    /\ RoleOnly(out[1])
    /\ HasContent(out[2])
    /\ HasContent(out[3])
    /\ StopChunk(out[Len(out) - 1])

\* the non-empty text fragments of all the assistant-content events of s, in
\* the order read
RECURSIVE AllFragments(_)
AllFragments(s) ==
    IF s = <<>> THEN <<>> ELSE Fragments(Head(s)) \o AllFragments(Tail(s))

\* the delta.content values of the chunks of s that carry content, in order
RECURSIVE ContentValues(_)
ContentValues(s) ==
    IF s = <<>> THEN <<>>
    ELSE (IF HasContent(Head(s)) THEN <<DeltaOf(Head(s)).content>> ELSE <<>>)
         \o ContentValues(Tail(s))

\* an assistant-content event with a fragment was read before any final-result
\* event with a non-empty result
FragmentBeforeResult ==
    \E i \in 1..Len(lines) :
        /\ Fragments(lines[i]) # <<>>
        /\ \A j \in 1..(i - 1) : ResultOf(lines[j]) = <<>>

\* C24: in a stream where a fragment was read before any non-empty
\* final-result event, the delta.content values of the chunks written are,
\* one chunk per fragment and in the same order, the non-empty text fragments
\* of all the assistant-content events read.
C24_ContentIsTheFragments ==
    (StreamStarted /\ FragmentBeforeResult) =>
        /\ ContentValues(out) = AllFragments(lines)
        /\ \A i \in 1..Len(out) : ~IsFallback(out[i])

\* a finished stream of an event with one fragment, a final-result event with
\* a result, and an event with two fragments among three content items
C24_Witness ==
    /\ StreamStarted
    /\ pc = "done"
    /\ Len(lines) = 3
    /\ Len(Fragments(lines[1])) = 1
    /\ ResultOf(lines[2]) # <<>>
    /\ Len(Fragments(lines[3])) = 2
    /\ Len(ContentValues(out)) = 3

(***************************************************************************)
(* Termination of the streaming handler (SpecLive).                        *)
(***************************************************************************)
\* C25: every streaming handler whose subprocess was started eventually
\* writes the stop chunk and the [DONE] terminator and then returns; the
\* terminator is written before the handler waits for the subprocess, and
\* the wait ends also when the handler stopped reading before the subprocess
\* finished writing (the scanner gave up on an over-long line).
C25_StreamReturns ==
    /\ [](StreamStarted /\ pc \in {"wait", "done"} =>
            /\ Len(out) >= 2
            /\ out[Len(out)] = SSEDone
            /\ StopChunk(out[Len(out) - 1]))
    /\ (StreamStarted ~> (pc \in {"wait", "done"}))
    /\ ((StreamStarted /\ pc = "wait") ~> Returned)

(***************************************************************************)
(* Isolation of concurrently handled requests (SpecConcurrent).            *)
(***************************************************************************)
\* the loop of a call run on the lines of s, reading its own sentRole
RECURSIVE ReplayLines(_, _)
ReplayLines(l, s) ==
    IF s = <<>> THEN l
    ELSE ReplayLines(LocalScanLine(l, Head(s), l.sentRole), Tail(s))

\* the locals of a call that was handled alone, given the request, the clock
\* readings, the subprocess results and the lines that the call with locals l
\* was given, and taken as far as that call has come
Alone(l, key, dflt) ==
    IF l.pc = "idle" THEN IdleHandler
    ELSE LET a == LocalHandleChat(IdleHandler, l.req, key, dflt)
         IN  IF a.pc = "done" \/ l.pc \in {"stream", "nonstream"} THEN a
             ELSE IF a.pc = "nonstream"
             THEN LocalNonStreaming(a, l.res, l.clock[1], l.clock[2])
             ELSE LET b == LocalStreamStart(a, l.startOK, l.clock[1], l.clock[2])
                      c == ReplayLines(b, l.lines)
                  IN  IF b.pc = "done" THEN b
                      ELSE IF l.pc = "scan" THEN c
                      ELSE IF l.pc = "wait" THEN LocalScanEnd(c)
                      ELSE LocalWait(LocalScanEnd(c))

\* C26: in every interleaving of concurrently handled requests, each
\* request's response (status, frames written, model, prompts, subprocess
\* arguments) and loop state are those of the same request handled alone, at
\* every point of its handling; and no step of a handler writes the API key
\* or the default model, the only state the handlers share.
C26_RequestsAreIsolated ==
    /\ [](handlers # NoHandlers =>
            \A i \in HandlerIds : handlers[i] = Alone(handlers[i], apiKey, defaultModel))
    /\ [][apiKey' = apiKey /\ defaultModel' = defaultModel]_vars

\* two streams in flight at once with different models: the first has sent
\* its role chunk, the second has read a line and has sent nothing yet
C26_Witness ==
    /\ handlers # NoHandlers
    /\ handlers[1].pc = "scan"
    /\ handlers[1].sentRole
    /\ handlers[2].pc = "scan"
    /\ handlers[2].lines # <<>>
    /\ ~handlers[2].sentRole
    /\ handlers[1].model # handlers[2].model

\* two streams that both finished after each sent a role chunk of its own
C26_WitnessBothDone ==
    /\ handlers # NoHandlers
    /\ \A i \in HandlerIds :
          /\ handlers[i].pc = "done"
          /\ handlers[i].req.chat.stream
          /\ handlers[i].sentRole
          /\ Len(handlers[i].out) >= 4

====
